---- MODULE Spec2Model ----
(***************************************************************************)
(* Model of app.py: a Streamlit script that turns a topic into a short     *)
(* video in five button-triggered stages (script, voice, image, subtitle,  *)
(* render).  One run of the script is modelled top to bottom: pc is the    *)
(* position of the run, session is st.session_state, fs the files on disk. *)
(*                                                                         *)
(* Strings that the code transforms are modelled as sequences:             *)
(*   - a text (topic, script) is a sequence of characters, so that strip() *)
(*     is computed;                                                        *)
(*   - a path is a sequence of tokens <<dir, name, extension>>, so that    *)
(*     str.replace of an extension is computed.                            *)
(* An Optional value is <<>> (None) or <<v>>.                              *)
(***************************************************************************)
EXTENDS Integers, Sequences, FiniteSets, TLC

VARIABLES
    session,        \* st.session_state: key -> value, keys may be absent
    fs,             \* files on disk: set of [path, data]
    pc,             \* position of the current script run ("idle": waiting for the user)
    consumed,       \* the user interaction that triggered the current run has been
                    \* consumed; TRUE throughout a run the user did not trigger
                    \* (the first run, the run after st.experimental_rerun)
    topic,          \* value the topic text input returned in the current run
    nextId,         \* number of the next fresh uuid4
    call,           \* the stage function invoked in the current run, its reply and result
    exc,            \* uncaught exception that ended the current run ("" if none)
    segments_src    \* audio path (Optional) that session['segments'] was transcribed from

vars == <<session, fs, pc, consumed, topic, nextId, call, exc, segments_src>>

----------------------------------------------------------------------------
(* Bounds *)

MaxIds == 3         \* uuid4 values drawn in one behaviour
MaxLen == 1         \* length of a text
MaxSegs == 2        \* number of segments in a transcription result

----------------------------------------------------------------------------
(* Values *)

None == <<>>
Some(v) == <<v>>

Chars == {" ", "a"}

Texts == UNION {[1..n -> Chars] : n \in 0..MaxLen}

\* values of the topic input; the topic only enters the prompt and the query,
\* and no reply depends on it
Topics == {<<"a">>}

\* HTTP statuses the speech service may answer with
Statuses == {200, 201, 500}

\* bodies of successful speech responses, error bodies, image bytes
Bodies == {"B1"}

ErrTexts == {"E1"}

ImageData == {"I1"}

\* video files produced by the encoder: complete, or cut off by a failure
VideoData == {"V1"}

PartialVideo == "V-partial"

\* subtitle entries {start, end, text}; times in tenths of a second
Segment == {[start |-> 0, end |-> 12, text |-> "a"],
            [start |-> 12, end |-> 30, text |-> "b"]}

SegLists == UNION {[1..n -> Segment] : n \in 0..MaxSegs}

Traceback(e) == "Traceback: " \o e

uuid(n) == "u" \o ToString(n)

keys == <<"script", "edited_script", "audio_path", "image_path", "segments">>

----------------------------------------------------------------------------
(* Files *)

Exists(files, p) == \E f \in files : f.path = p

Data(files, p) == (CHOOSE f \in files : f.path = p).data

\* open(p, "w"/"wb") followed by write(d): creates or truncates
WriteFile(files, p, d) == {f \in files : f.path # p} \cup {[path |-> p, data |-> d]}

\* str.replace on a path: every occurrence of the token old becomes new
replace(p, old, new) == [i \in 1..Len(p) |-> IF p[i] = old THEN new ELSE p[i]]

LogPathNoMp3(file_path) ==
    replace(replace(file_path, ".mp4", "_log.txt"), ".jpg", "_log.txt")

log_path(file_path) ==
    replace(replace(replace(file_path, ".mp4", "_log.txt"),
                    ".mp3", "_log.txt"),
            ".jpg", "_log.txt")

write_log(files, file_path, error_message) ==
    WriteFile(files, log_path(file_path), error_message)

ScriptErrorPath == <<"output/", "script_error", ".txt">>

AudioPath(n) == <<"audio/", uuid(n), ".mp3">>

ImagePath(n) == <<"assets/", uuid(n), ".jpg">>

OutputPath(n) == <<"output/", uuid(n), ".mp4">>

----------------------------------------------------------------------------
(* Session state *)

Has(sess, k) == k \in DOMAIN sess

Put(sess, k, v) == [x \in DOMAIN sess \cup {k} |-> IF x = k THEN v ELSE sess[x]]

DefaultOf(key) == IF key \in {"script", "edited_script"} THEN <<>> ELSE None

InitKeyAlways(sess, key) == Put(sess, key, DefaultOf(key))

InitKey(sess, key) == IF ~Has(sess, key) THEN Put(sess, key, DefaultOf(key)) ELSE sess

RECURSIVE InitFrom(_, _)
InitFrom(sess, i) ==
    IF i > Len(keys) THEN sess ELSE InitFrom(InitKey(sess, keys[i]), i + 1)

init_session(sess) == InitFrom(sess, 1)

\* Python truthiness of the session fields
TruthyText(s) == s # <<>>

TruthyPath(o) == o # None

TruthySegments(o) == o # None /\ o[1] # <<>>

----------------------------------------------------------------------------
(* str.strip() *)

RECURSIVE lstrip(_)
lstrip(s) == IF s # <<>> /\ Head(s) = " " THEN lstrip(Tail(s)) ELSE s

RECURSIVE rstrip(_)
rstrip(s) ==
    IF s # <<>> /\ s[Len(s)] = " " THEN rstrip(SubSeq(s, 1, Len(s) - 1)) ELSE s

strip(s) == rstrip(lstrip(s))

----------------------------------------------------------------------------
(* Replies of the external collaborators *)

\* openai.ChatCompletion.create: a completion, or an exception of the client
ScriptReplies ==
    [kind : {"ok"}, content : Texts, error : {""}]
    \cup [kind : {"exception"}, content : {<<>>}, error : {"APIError"}]

\* requests.post to the speech service: an HTTP response, or a network exception
VoiceReplies ==
    [kind : {"http"}, status : {200}, body : Bodies, error : {""}]
    \cup [kind : {"http"}, status : Statuses \ {200}, body : ErrTexts, error : {""}]
    \cup [kind : {"exception"}, status : {0}, body : {""}, error : {"ConnectionError"}]

\* requests.get of the photo metadata and of the photo itself.
\* urls: "absent" ('urls' not in data), "no_regular" ('urls' without 'regular'),
\* "ok" (data['urls']['regular'] is a url)
ImageReplies ==
    [kind : {"exception"}, urls : {"absent"}, fetch : {"ok"}, data : {""},
     error : {"ConnectionError"}]
    \cup [kind : {"json"}, urls : {"absent", "no_regular"}, fetch : {"ok"},
          data : {""}, error : {""}]
    \cup [kind : {"json"}, urls : {"ok"}, fetch : {"ok"}, data : ImageData, error : {""}]
    \cup [kind : {"json"}, urls : {"ok"}, fetch : {"exception"}, data : {""},
          error : {"ConnectionError"}]

\* whisper.load_model and model.transcribe
WhisperReplies ==
    [kind : {"load_error", "transcribe_error"}, has_segments : {FALSE},
     segments : {<<>>}, error : {"RuntimeError"}]
    \cup [kind : {"result"}, has_segments : {FALSE}, segments : {<<>>}, error : {""}]
    \cup [kind : {"result"}, has_segments : {TRUE}, segments : SegLists, error : {""}]

\* moviepy: ImageClip/AudioFileClip (load), TextClip/CompositeVideoClip
\* (compose), write_videofile (encode).  A failed encode may leave a cut-off
\* file behind; a failed load or compose has not opened the output yet.
VideoReplies ==
    [kind : {"ok"}, partial : {FALSE}, error : {""}]
    \cup [kind : {"load_error", "compose_error"}, partial : {FALSE}, error : {"OSError"}]
    \cup [kind : {"encode_error"}, partial : BOOLEAN, error : {"IOError"}]

\* classes that "except Exception" catches
ExceptionClasses ==
    {"APIError", "ConnectionError", "ValueError", "KeyError",
     "RuntimeError", "OSError", "IOError", "FileNotFoundError"}

CaughtValueErrorOnly(e) == e = "ValueError"

Caught(e) == e \in ExceptionClasses

\* result of a stage function: the files after it, its return value, the paths
\* it opened for writing, and the exception it let through ("" if it returned)
Result(files, ret, written, raised) ==
    [fs |-> files, ret |-> ret, written |-> written, raised |-> raised]

Raise(files, e) == Result(files, None, {}, e)

----------------------------------------------------------------------------
(* Stage functions *)

generate_script(files, tpc, reply) ==
    IF reply.kind = "ok"
    THEN Result(files, strip(reply.content), {}, "")
    ELSE IF Caught(reply.error)
         THEN Result(write_log(files, ScriptErrorPath, Traceback(reply.error)),
                     <<>>, {log_path(ScriptErrorPath)}, "")
         ELSE Raise(files, reply.error)

IsOkLax(status) == status < 300

IsOk(status) == status = 200

generate_typecast_voice(files, text, path, reply) ==
    IF reply.kind = "http"
    THEN IF IsOk(reply.status)
         THEN Result(WriteFile(files, path, reply.body), TRUE, {path}, "")
         ELSE Result(write_log(files, path, reply.body), FALSE, {log_path(path)}, "")
    ELSE IF Caught(reply.error)
         THEN Result(write_log(files, path, Traceback(reply.error)),
                     FALSE, {log_path(path)}, "")
         ELSE Raise(files, reply.error)

\* the exception the try body of download_unsplash_image ends with ("" if none)
DownloadError(reply) ==
    IF reply.kind = "exception" THEN reply.error
    ELSE IF reply.urls = "absent" THEN "ValueError"
    ELSE IF reply.urls = "no_regular" THEN "KeyError"
    ELSE IF reply.fetch = "exception" THEN reply.error
    ELSE ""

download_unsplash_image(files, keyword, save_path, reply) ==
    LET e == DownloadError(reply) IN
    IF e = ""
    THEN Result(WriteFile(files, save_path, reply.data), None, {save_path}, "")
    ELSE IF Caught(e)
         THEN Result(write_log(files, save_path, Traceback(e)),
                     None, {log_path(save_path)}, "")
         ELSE Raise(files, e)

\* the exception the try body of extract_subtitles ends with ("" if none)
ExtractError(reply) ==
    IF reply.kind # "result" THEN reply.error
    ELSE IF ~reply.has_segments THEN "ValueError"
    ELSE ""

SegmentsTail(result) == IF result = <<>> THEN <<>> ELSE Tail(result)

SegmentsOf(result) == result

extract_subtitles(files, audio_path, reply) ==
    LET e == ExtractError(reply) IN
    IF e = ""
    THEN Result(files, SegmentsOf(reply.segments), {}, "")
    ELSE IF Caught(e)
         THEN Result(write_log(files, audio_path, Traceback(e)),
                     <<>>, {log_path(audio_path)}, "")
         ELSE Raise(files, e)

create_video(files, image_path, audio_path, subtitles, output_path, reply) ==
    IF reply.kind = "ok"
    THEN Result(WriteFile(files, output_path, CHOOSE v \in VideoData : TRUE),
                None, {output_path}, "")
    ELSE LET files1 == IF reply.partial
                       THEN WriteFile(files, output_path, PartialVideo)
                       ELSE files
             written1 == IF reply.partial THEN {output_path} ELSE {}
         IN IF Caught(reply.error)
            THEN Result(write_log(files1, output_path, Traceback(reply.error)),
                        None, written1 \cup {log_path(output_path)}, "")
            ELSE Raise(files1, reply.error)

----------------------------------------------------------------------------
(* The script run *)

NoCall ==
    [fn |-> "none", path |-> None, reply |-> [kind |-> "none"],
     ret |-> None, written |-> {}, raised |-> ""]

Call(fn, path, reply, r) ==
    [fn |-> fn, path |-> path, reply |-> reply,
     ret |-> r.ret, written |-> r.written, raised |-> r.raised]

\* fields a stage handler stores after its stage function returned
ScriptStore(sess, script) ==
    [sess EXCEPT !["script"] = script, !["edited_script"] = script]

VoiceStoreCascade(sess, audio_path) ==
    [sess EXCEPT !["audio_path"] = Some(audio_path), !["segments"] = None]

VoiceStore(sess, audio_path) == [sess EXCEPT !["audio_path"] = Some(audio_path)]

ImageStore(sess, image_path) == [sess EXCEPT !["image_path"] = Some(image_path)]

SubtitleStore(sess, segs) == [sess EXCEPT !["segments"] = Some(segs)]

\* conditions next to st.button(...) that gate a stage
VoiceGateOpen(sess) == TRUE

VoiceGate(sess) == TruthyText(sess["edited_script"])

SubtitleGate(sess) == TruthyPath(sess["audio_path"])

RenderGate(sess) ==
    /\ TruthySegments(sess["segments"])
    /\ TruthyPath(sess["image_path"])
    /\ TruthyPath(sess["audio_path"])

\* value the text area returns: what the user typed, else the value passed in
text_area(value, input) == IF input = None THEN value ELSE input[1]

\* st.button returns True in the run its click triggered; one click triggers
\* one run, so at most one button of a run returns True
ButtonValues(used) == IF used THEN {FALSE} ELSE BOOLEAN

\* what the user typed into the text area before the run (None: nothing)
TextInputs(used) == IF used THEN {None} ELSE {None} \cup {Some(x) : x \in Texts}

Init ==
    /\ session = [k \in {} |-> None]
    /\ fs = {}
    /\ pc = "init_session"
    /\ consumed = TRUE
    /\ topic = <<"a">>
    /\ nextId = 1
    /\ call = NoCall
    /\ exc = ""
    /\ segments_src = None

\* the user edits an input or clicks a button: the script runs again
UserAction ==
    /\ pc = "idle"
    /\ pc' = "init_session"
    /\ consumed' = FALSE
    /\ call' = NoCall
    /\ exc' = ""
    /\ UNCHANGED <<session, fs, topic, nextId, segments_src>>

InitSession ==
    /\ pc = "init_session"
    /\ session' = init_session(session)
    /\ pc' = "text_input"
    /\ UNCHANGED <<fs, consumed, topic, nextId, call, exc, segments_src>>

TopicInput ==
    /\ pc = "text_input"
    /\ \E tp \in Topics : topic' = tp
    /\ pc' = "text_area"
    /\ UNCHANGED <<session, fs, consumed, nextId, call, exc, segments_src>>

TextArea ==
    /\ pc = "text_area"
    /\ \E input \in TextInputs(consumed) :
          session' = [session EXCEPT
                         !["edited_script"] = text_area(session["edited_script"], input)]
    /\ pc' = "script_stage"
    /\ UNCHANGED <<fs, consumed, topic, nextId, call, exc, segments_src>>

ScriptStage ==
    /\ pc = "script_stage"
    /\ \E button \in ButtonValues(consumed) :
         IF button
         THEN \E reply \in ScriptReplies :
                LET r == generate_script(fs, topic, reply) IN
                /\ consumed' = TRUE
                /\ fs' = r.fs
                /\ call' = Call("generate_script", None, reply, r)
                /\ IF r.raised # ""
                   THEN /\ exc' = r.raised
                        /\ pc' = "idle"
                        /\ UNCHANGED session
                   ELSE /\ session' = ScriptStore(session, r.ret)
                        /\ pc' = "init_session"
                        /\ UNCHANGED exc
         ELSE /\ pc' = "voice_stage"
              /\ UNCHANGED <<session, fs, consumed, call, exc>>
    /\ UNCHANGED <<topic, nextId, segments_src>>

VoiceStage ==
    /\ pc = "voice_stage"
    /\ \E button \in ButtonValues(consumed) :
         /\ button => nextId <= MaxIds
         /\ consumed' = (consumed \/ button)
         /\ IF button /\ VoiceGate(session)
            THEN \E reply \in VoiceReplies :
                   LET audio_path == AudioPath(nextId)
                       r == generate_typecast_voice(fs, session["edited_script"],
                                                    audio_path, reply)
                   IN
                   /\ nextId' = nextId + 1
                   /\ fs' = r.fs
                   /\ call' = Call("generate_typecast_voice", Some(audio_path), reply, r)
                   /\ IF r.raised # ""
                      THEN /\ exc' = r.raised
                           /\ pc' = "idle"
                           /\ UNCHANGED session
                      ELSE /\ session' = IF r.ret
                                         THEN VoiceStore(session, audio_path)
                                         ELSE session
                           /\ pc' = "image_stage"
                           /\ UNCHANGED exc
            ELSE /\ pc' = "image_stage"
                 /\ UNCHANGED <<session, fs, nextId, call, exc>>
    /\ UNCHANGED <<topic, segments_src>>

ImageStage ==
    /\ pc = "image_stage"
    /\ \E button \in ButtonValues(consumed) :
         /\ button => nextId <= MaxIds
         /\ consumed' = (consumed \/ button)
         /\ IF button
            THEN \E reply \in ImageReplies :
                   LET image_path == ImagePath(nextId)
                       r == download_unsplash_image(fs, topic, image_path, reply)
                   IN
                   /\ nextId' = nextId + 1
                   /\ fs' = r.fs
                   /\ call' = Call("download_unsplash_image", Some(image_path), reply, r)
                   /\ IF r.raised # ""
                      THEN /\ exc' = r.raised
                           /\ pc' = "idle"
                           /\ UNCHANGED session
                      ELSE /\ session' = ImageStore(session, image_path)
                           /\ pc' = "image_preview"
                           /\ UNCHANGED exc
            ELSE /\ pc' = "image_preview"
                 /\ UNCHANGED <<session, fs, nextId, call, exc>>
    /\ UNCHANGED <<topic, segments_src>>

\* st.image, st.video and open(path, "rb") read the file and raise when it
\* does not exist
ReadError(files, path) == IF Exists(files, path) THEN "" ELSE "FileNotFoundError"

ImagePreview ==
    /\ pc = "image_preview"
    /\ LET e == IF TruthyPath(session["image_path"])
                THEN ReadError(fs, session["image_path"][1])
                ELSE ""
       IN /\ exc' = e
          /\ pc' = IF e # "" THEN "idle" ELSE "subtitle_stage"
    /\ UNCHANGED <<session, fs, consumed, topic, nextId, call, segments_src>>

SubtitleStage ==
    /\ pc = "subtitle_stage"
    /\ \E button \in ButtonValues(consumed) :
         /\ consumed' = (consumed \/ button)
         /\ IF button /\ SubtitleGate(session)
            THEN \E reply \in WhisperReplies :
                   LET audio_path == session["audio_path"][1]
                       r == extract_subtitles(fs, audio_path, reply)
                   IN
                   /\ fs' = r.fs
                   /\ call' = Call("extract_subtitles", Some(audio_path), reply, r)
                   /\ IF r.raised # ""
                      THEN /\ exc' = r.raised
                           /\ pc' = "idle"
                           /\ UNCHANGED <<session, segments_src>>
                      ELSE /\ session' = SubtitleStore(session, r.ret)
                           /\ segments_src' = Some(audio_path)
                           /\ pc' = "render_stage"
                           /\ UNCHANGED exc
            ELSE /\ pc' = "render_stage"
                 /\ UNCHANGED <<session, fs, call, exc, segments_src>>
    /\ UNCHANGED <<topic, nextId>>

RenderStage ==
    /\ pc = "render_stage"
    /\ \E button \in ButtonValues(consumed) :
         /\ button => nextId <= MaxIds
         /\ consumed' = (consumed \/ button)
         /\ IF button /\ RenderGate(session)
            THEN \E reply \in VideoReplies :
                   LET output_path == OutputPath(nextId)
                       r == create_video(fs, session["image_path"][1],
                                         session["audio_path"][1],
                                         session["segments"][1], output_path, reply)
                   IN
                   /\ nextId' = nextId + 1
                   /\ fs' = r.fs
                   /\ call' = Call("create_video", Some(output_path), reply, r)
                   /\ exc' = IF r.raised # "" THEN r.raised
                             ELSE ReadError(r.fs, output_path)
            ELSE UNCHANGED <<fs, nextId, call, exc>>
    /\ pc' = "idle"
    /\ UNCHANGED <<session, topic, segments_src>>

Next ==
    \/ UserAction
    \/ InitSession
    \/ TopicInput
    \/ TextArea
    \/ ScriptStage
    \/ VoiceStage
    \/ ImageStage
    \/ ImagePreview
    \/ SubtitleStage
    \/ RenderStage

Spec == Init /\ [][Next]_vars

TypeOK ==
    /\ pc \in {"idle", "init_session", "text_input", "text_area", "script_stage",
               "voice_stage", "image_stage", "image_preview", "subtitle_stage",
               "render_stage"}
    /\ consumed \in BOOLEAN
    /\ topic \in Topics
    /\ nextId \in 1..(MaxIds + 1)

----------------------------------------------------------------------------
(* Properties *)

Initialised == DOMAIN session = {keys[i] : i \in 1..Len(keys)}

VoiceCalled == call.fn = "generate_typecast_voice"

\* C1: generate_typecast_voice answered with HTTP 200 and body B returns True
\* and leaves exactly B in the file at path; answered with any other status it
\* returns False, leaves no file at path and writes only the sidecar log
\* (path with ".mp3" replaced by "_log.txt").
C1_VoiceContract ==
    (VoiceCalled /\ call.reply.kind = "http") =>
        LET path == call.path[1] IN
        IF call.reply.status = 200
        THEN /\ call.ret = TRUE
             /\ Exists(fs, path)
             /\ Data(fs, path) = call.reply.body
        ELSE /\ call.ret = FALSE
             /\ ~Exists(fs, path)
             /\ call.written = {replace(path, ".mp3", "_log.txt")}
             /\ Exists(fs, replace(path, ".mp3", "_log.txt"))

\* a non-200 answer after an earlier 200 answer had produced an audio file
C1_Witness ==
    /\ VoiceCalled
    /\ call.reply.kind = "http"
    /\ call.reply.status = 201
    /\ call.ret = FALSE
    /\ Initialised
    /\ TruthyPath(session["audio_path"])
    /\ Data(fs, session["audio_path"][1]) \in Bodies

\* C2: no run of the script ends with an uncaught exception, whatever the
\* external call of the clicked stage did.
C2_NoUncaughtException == exc = ""

\* C3: for a non-empty topic generate_script returns a non-empty string, or
\* returns "" having written exactly the log at the script-error path.
C3_EmptyScriptIsLogged ==
    (call.fn = "generate_script" /\ topic # <<>>) =>
        \/ call.ret # <<>>
        \/ call.written = {ScriptErrorPath}

\* a step that invokes a gated stage function starts with its gate open
GatedStep ==
    /\ (call'.fn = "generate_typecast_voice" /\ call.fn = "none")
         => session["edited_script"] # <<>>
    /\ (call'.fn = "extract_subtitles" /\ call.fn = "none")
         => session["audio_path"] # None
    /\ (call'.fn = "create_video" /\ call.fn = "none")
         => /\ session["segments"] # None
            /\ session["segments"][1] # <<>>
            /\ session["image_path"] # None
            /\ session["audio_path"] # None

\* C4: generate_typecast_voice is invoked only when edited_script is
\* non-empty, extract_subtitles only when audio_path is set, create_video only
\* when segments is a non-empty sequence and image_path and audio_path are set.
C4_Gated == [][GatedStep]_vars

\* create_video has been invoked (after voice and subtitle stages ran)
C4_Witness ==
    /\ call.fn = "create_video"
    /\ Initialised
    /\ session["edited_script"] # <<>>
    /\ Len(session["segments"][1]) = 2

\* the external call of the stage function recorded in c failed
Failed(c) ==
    CASE c.fn = "generate_script" -> c.reply.kind = "exception"
      [] c.fn = "generate_typecast_voice" ->
            ~(c.reply.kind = "http" /\ c.reply.status = 200)
      [] c.fn = "download_unsplash_image" -> DownloadError(c.reply) # ""
      [] c.fn = "extract_subtitles" -> ExtractError(c.reply) # ""
      [] c.fn = "create_video" -> c.reply.kind # "ok"
      [] OTHER -> FALSE

OwnFields(fn) ==
    CASE fn = "generate_script" -> {"script", "edited_script"}
      [] fn = "generate_typecast_voice" -> {"audio_path"}
      [] fn = "download_unsplash_image" -> {"image_path"}
      [] fn = "extract_subtitles" -> {"segments"}
      [] OTHER -> {}

FailedStageStep ==
    (call.fn = "none" /\ call'.fn # "none" /\ Failed(call'))
        => \A k \in OwnFields(call'.fn) : session'[k] = session[k]

\* C5: when the external call of a stage fails, the fields of that stage keep
\* the values they had before the button was pressed.
C5_FailedStageKeepsFields == [][FailedStageStep]_vars

ImageCalled == call.fn = "download_unsplash_image"

\* C6: when the metadata lacks urls.regular ('urls' absent, or present without
\* 'regular'), download_unsplash_image writes the log at save_path with ".jpg"
\* replaced by "_log.txt", writes no file at save_path and returns without
\* raising.
C6_MissingUrlLogged ==
    (ImageCalled /\ call.reply.kind = "json"
        /\ call.reply.urls \in {"absent", "no_regular"}) =>
        LET save_path == call.path[1] IN
        /\ call.raised = ""
        /\ call.written = {replace(save_path, ".jpg", "_log.txt")}
        /\ Exists(fs, replace(save_path, ".jpg", "_log.txt"))
        /\ ~Exists(fs, save_path)

\* 'urls' present without 'regular': the KeyError is absorbed and logged
C6_Witness ==
    /\ ImageCalled
    /\ call.reply.kind = "json"
    /\ call.reply.urls = "no_regular"
    /\ Exists(fs, replace(call.path[1], ".jpg", "_log.txt"))

\* C7: extract_subtitles returns the result's segment sequence unchanged when
\* the result has a 'segments' field, and returns the empty sequence without
\* raising on every failure.
C7_SegmentsUnchanged ==
    (call.fn = "extract_subtitles") =>
        IF call.reply.kind = "result" /\ call.reply.has_segments
        THEN call.ret = call.reply.segments /\ call.raised = ""
        ELSE call.ret = <<>> /\ call.raised = ""

\* a result of two segments, the later one first, returned as it came
C7_Witness ==
    /\ call.fn = "extract_subtitles"
    /\ call.reply.kind = "result"
    /\ call.reply.has_segments
    /\ Len(call.reply.segments) = 2
    /\ call.reply.segments[1].start > call.reply.segments[2].start
    /\ call.ret = call.reply.segments

\* session fields the handler at a position of the run may store
StageFields(p) ==
    CASE p = "script_stage" -> {"script", "edited_script"}
      [] p = "voice_stage" -> {"audio_path"}
      [] p = "image_stage" -> {"image_path"}
      [] p = "subtitle_stage" -> {"segments"}
      [] OTHER -> {}

StagePositions ==
    {"script_stage", "voice_stage", "image_stage", "image_preview",
     "subtitle_stage", "render_stage"}

NoCascadeStep ==
    pc \in StagePositions =>
        /\ DOMAIN session' = DOMAIN session
        /\ \A k \in DOMAIN session :
              k \notin StageFields(pc) => session'[k] = session[k]

\* C8: a stage handler changes no session field but its own (no invalidation
\* of the fields of later stages).
C8_NoCascade == [][NoCascadeStep]_vars

\* segments transcribed from an audio file that is no longer the current one,
\* with the render stage enabled
C8_Witness ==
    /\ pc = "render_stage"
    /\ ~consumed
    /\ RenderGate(session)
    /\ segments_src # session["audio_path"]

\* the positions at which the value of a session field is produced
Producers(k) ==
    CASE k \in {"script", "edited_script"} -> {"script_stage"}
      [] k = "audio_path" -> {"voice_stage"}
      [] k = "image_path" -> {"image_stage"}
      [] k = "segments" -> {"subtitle_stage"}

ProducersAmended(k) ==
    IF k = "edited_script" THEN {"script_stage", "text_area"} ELSE Producers(k)

\* init_session at process start sets the defaults, and on every later run
\* leaves the session as it is
InitSessionOnce ==
    pc = "init_session" =>
        IF session = [k \in {} |-> None]
        THEN session' = [k \in {keys[i] : i \in 1..Len(keys)} |-> <<>>]
        ELSE session' = session

\* the value of field k can only have been stored by its producing stage
\* (edited_script: it is the script the script stage stored with it)
StageStored(k) ==
    IF k = "edited_script"
    THEN session["script"] # <<>> /\ session["edited_script"] = session["script"]
    ELSE session[k] # <<>>

\* a value stored by a stage changes only when its producing stage runs
StoredSurvivesStep ==
    \A k \in DOMAIN session :
        (StageStored(k) /\ session'[k] # session[k]) => pc \in Producers(k)

\* a session field changes only at the positions that produce it
SurvivesAmendedStep ==
    \A k \in DOMAIN session : session'[k] # session[k] => pc \in ProducersAmended(k)

\* C9 as stated: the session is initialised once, init_session changes nothing
\* afterwards, and a value stored by a stage survives every later run until
\* its producing stage runs again.
C9_Original == [][InitSessionOnce /\ StoredSurvivesStep]_vars

\* C9 amended: as C9, except that edited_script is also overwritten by the
\* text area (line 138) on every run with what the user typed.
C9_Amended == [][InitSessionOnce /\ SurvivesAmendedStep]_vars

\* a later run has passed init_session with the stored values in place
C9_Witness ==
    /\ pc = "text_input"
    /\ session["script"] # <<>>
    /\ TruthyPath(session["audio_path"])
    /\ TruthyPath(session["image_path"])
    /\ TruthySegments(session["segments"])

\* C10: whenever session audio_path is set, the file it names exists and holds
\* the body of an HTTP 200 answer of the speech service.
C10_AudioFileExists ==
    (Initialised /\ TruthyPath(session["audio_path"])) =>
        /\ Exists(fs, session["audio_path"][1])
        /\ Data(fs, session["audio_path"][1]) \in Bodies

\* the current audio file after a failed transcription wrote its sidecar log
C10_Witness ==
    /\ Initialised
    /\ TruthyPath(session["audio_path"])
    /\ call.fn = "extract_subtitles"
    /\ call.written = {log_path(session["audio_path"][1])}
    /\ Exists(fs, log_path(session["audio_path"][1]))

====
